---- MODULE Spec2Model ----
(***************************************************************************)
(* Model of translate.py: the cached, rate-limited translator, the JSONL   *)
(* file processor with its periodic cache checkpoint, and the driver.      *)
(*                                                                         *)
(* A Python str is a sequence of one-character strings.  The alphabet has  *)
(* no line breaks; white space is the blank and the tab.                   *)
(***************************************************************************)
EXTENDS Integers, Sequences, FiniteSets, TLC

\* ------------------------------------------------------------------ bounds
\* Provider calls of one run that do anything but return the nominal answer.
MaxDeviations == 2
\* Number of records of the long input file.
LongLen == 11

\* ------------------------------------------------------- string primitives
IsSpace(c) == c \in {" ", "\t"}

LowerChar(c) ==
    CASE c = "A" -> "a" [] c = "B" -> "b" [] c = "C" -> "c" [] c = "D" -> "d"
      [] c = "E" -> "e" [] c = "F" -> "f" [] c = "G" -> "g" [] c = "H" -> "h"
      [] c = "I" -> "i" [] c = "J" -> "j" [] c = "K" -> "k" [] c = "L" -> "l"
      [] c = "M" -> "m" [] c = "N" -> "n" [] c = "O" -> "o" [] c = "P" -> "p"
      [] c = "Q" -> "q" [] c = "R" -> "r" [] c = "S" -> "s" [] c = "T" -> "t"
      [] c = "U" -> "u" [] c = "V" -> "v" [] c = "W" -> "w" [] c = "X" -> "x"
      [] c = "Y" -> "y" [] c = "Z" -> "z" [] OTHER -> c

RECURSIVE lower(_)
lower(s) == IF Len(s) = 0 THEN <<>> ELSE <<LowerChar(Head(s))>> \o lower(Tail(s))

RECURSIVE LStrip(_)
LStrip(s) == IF Len(s) > 0 /\ IsSpace(Head(s)) THEN LStrip(Tail(s)) ELSE s

RECURSIVE RStrip(_)
RStrip(s) ==
    IF Len(s) > 0 /\ IsSpace(s[Len(s)]) THEN RStrip(SubSeq(s, 1, Len(s) - 1)) ELSE s

strip(s) == RStrip(LStrip(s))

Min(S) == CHOOSE x \in S : \A y \in S : x <= y

\* First index >= i that holds no white space (Len(s)+1 when there is none).
SkipSpaces(s, i) ==
    Min({j \in i..(Len(s) + 1) : j = Len(s) + 1 \/ ~IsSpace(s[j])})

\* The word w stands at index i and white space follows it:  w\s
WordThenSpace(s, i, w) ==
    /\ i >= 1
    /\ i + Len(w) <= Len(s)
    /\ SubSeq(s, i, i + Len(w) - 1) = w
    /\ IsSpace(s[i + Len(w)])

\* A match of  \s+(w1|w2|...)\s+  begins at index i.
MatchSpWord(s, i, words) ==
    /\ i >= 1 /\ i <= Len(s)
    /\ IsSpace(s[i])
    /\ \E w \in words : WordThenSpace(s, SkipSpaces(s, i), w)

\* Index after the match of  \s+(w1|...)\s+  that begins at i.
MatchSpWordEnd(s, i, words) ==
    LET j == SkipSpaces(s, i)
        w == CHOOSE x \in words : WordThenSpace(s, j, x)
    IN  SkipSpaces(s, j + Len(w))

\* re.sub(r'^(w1|w2|...)\s+', '', s)
SubLeadingWord(s, words) ==
    IF \E w \in words : WordThenSpace(s, 1, w)
    THEN LET w == CHOOSE x \in words : WordThenSpace(s, 1, x)
         IN  SubSeq(s, SkipSpaces(s, Len(w) + 1), Len(s))
    ELSE s

\* re.sub(r'\s+(w1|w2|...)\s+.*$', '', s)
SubTrailingClause(s, words) ==
    LET P == {i \in 1..Len(s) : MatchSpWord(s, i, words)}
    IN  IF P = {} THEN s ELSE SubSeq(s, 1, Min(P) - 1)

\* re.sub(r'^lead\s+(w1|w2|...)\s+', '', s)
SubLeadingPhrase(s, lead, words) ==
    IF /\ Len(s) > Len(lead)
       /\ SubSeq(s, 1, Len(lead)) = lead
       /\ MatchSpWord(s, Len(lead) + 1, words)
    THEN SubSeq(s, MatchSpWordEnd(s, Len(lead) + 1, words), Len(s))
    ELSE s

\* re.split(r'[,;.]|\s+(is|are|and|or)\s+', s)[0]
SplitFirst(s) ==
    LET Q == {i \in 1..Len(s) :
                \/ s[i] \in {",", ";", "."}
                \/ MatchSpWord(s, i, {<<"i","s">>, <<"a","r","e">>,
                                      <<"a","n","d">>, <<"o","r">>})}
    IN  IF Q = {} THEN s ELSE SubSeq(s, 1, Min(Q) - 1)

Articles == {<<"a">>, <<"a","n">>, <<"t","h","e">>}
Copulas == {<<"i","s">>, <<"a","r","e">>, <<"w","a","s">>, <<"w","e","r","e">>}
IsWas == {<<"i","s">>, <<"w","a","s">>}

\* ------------------------------------------------------------ Text Cleaners
clean_generated_answer(generated) ==
    IF Len(generated) = 0 THEN <<>>
    ELSE LET C == {i \in 1..Len(generated) : generated[i] = ","}
         IN  IF C # {} THEN strip(SubSeq(generated, 1, Min(C) - 1))
             ELSE strip(generated)

clean_translated_text(t) ==
    IF Len(t) = 0 THEN <<>>
    ELSE LET t0 == strip(lower(t))
             t1 == SubLeadingWord(t0, Articles)
             t2 == SubTrailingClause(t1, Copulas)
             t3 == SubLeadingPhrase(t2, <<"i","t">>, IsWas)
             t4 == SubLeadingPhrase(t3, <<"t","h","i","s">>, IsWas)
             t5 == SubLeadingPhrase(t4, <<"t","h","a","t">>, IsWas)
         IN  strip(SplitFirst(t5))

\* --------------------------------------------------------- configuration
\* The configured list; the shipped one holds "assamese" alone, a second
\* language lets the loop of main handle more than one pair.  The only file
\* type is "generated", so a pair is identified by its language.
LANGUAGES == <<"assamese", "bengali">>

get_language_code(language) ==
    CASE language = "assamese" -> <<"a","s">>
      [] language = "bengali"  -> <<"b","n">>
      [] language = "spanish"  -> <<"e","s">>
      [] OTHER                 -> <<"a","u","t","o">>

\* Records between two periodic saves of the cache.
SaveEvery == 10


\* --------------------------------------------------------------- mappings
EmptyMap == [k \in {} |-> <<>>]

\* d[k] = v on a Python dict
Store(d, k, v) == [x \in (DOMAIN d) \cup {k} |-> IF x = k THEN v ELSE d[x]]

\* f"{source_lang}:{text}"
CacheKey(source_lang, t) == source_lang \o <<":">> \o t

\* Variant: the membership test always misses.
CacheHit_Never(c, k) == FALSE

\* cache_key in cache
CacheHit(c, k) == k \in DOMAIN c

\* ------------------------------------------------------------ input files
Rec(g, a) == [bad |-> FALSE, hasGen |-> TRUE, Generated |-> g, hasAns |-> TRUE, Answer |-> a]
RecNoAnswer(g) == [bad |-> FALSE, hasGen |-> TRUE, Generated |-> g, hasAns |-> FALSE, Answer |-> <<>>]
RecBare == [bad |-> FALSE, hasGen |-> FALSE, Generated |-> <<>>, hasAns |-> FALSE, Answer |-> <<>>]
BadLine == [bad |-> TRUE, hasGen |-> FALSE, Generated |-> <<>>, hasAns |-> FALSE, Answer |-> <<>>]

\* data.get("Generated", "")  and  data.get("Answer", [])
GetGenerated(r) == IF r.hasGen THEN r.Generated ELSE <<>>
GetAnswer(r) == IF r.hasAns THEN r.Answer ELSE <<>>

Letters == <<"a","b","c","d","e","f","g","h","i","j","k","l","m","n","o","p">>

NoFile == [exists |-> FALSE, lines |-> <<>>]
File(ls) == [exists |-> TRUE, lines |-> ls]

RichFile ==
    File(<< Rec(<<"a","b",","," ","c">>, << <<"a","b">>, <<>>, <<"a","b">> >>),
            RecBare,
            Rec(<<" ",",","x">>, << <<"d">> >>) >>)
SmallFile == File(<< Rec(<<"a","b">>, << <<"a","b">> >>) >>)
BrokenFile == File(<< RecNoAnswer(<<"e">>), BadLine, RecNoAnswer(<<"f">>) >>)
EmptyFile == File(<<>>)
LongFile == File([i \in 1..LongLen |-> RecNoAnswer(<<"w", Letters[i]>>)])

InputChoices ==
    {f \in [1..Len(LANGUAGES) -> {NoFile, RichFile, SmallFile, BrokenFile, EmptyFile, LongFile}] :
        /\ f[1] # SmallFile
        /\ f[2] \in {NoFile, SmallFile}}

\* The cache file before the run: absent, left by an earlier run, or not JSON.
NoDisk == [exists |-> FALSE, ok |-> TRUE, data |-> EmptyMap]
Truncated == [exists |-> TRUE, ok |-> FALSE, data |-> EmptyMap]
Dumped(c) == [exists |-> TRUE, ok |-> TRUE, data |-> c]
EarlierRun == Dumped(Store(EmptyMap, CacheKey(<<"a","s">>, <<"a","b">>), <<"o","l","d">>))
DiskChoices == {NoDisk, EarlierRun, Truncated}

\* ------------------------------------------------------------- providers
\* What a provider call can do: raise, or return a string.
Raised == [ok |-> FALSE, val |-> <<>>]
Returned(v) == [ok |-> TRUE, val |-> v]

PrimaryNominal == <<"T","h","e"," ","c","a","t"," ","i","s"," ","a","n"," ","a","n","i","m","a","l">>
PrimaryOdd == <<","," ","X">>
FallbackNominal == <<"A"," ","D","o","g",","," ","b","i","g">>
FallbackOdd == <<";">>

PrimaryOutcomes == {Raised, Returned(PrimaryNominal), Returned(PrimaryOdd)}
FallbackOutcomes == {Raised, Returned(FallbackNominal), Returned(FallbackOdd)}
Cost(o) == IF o \in {Returned(PrimaryNominal), Returned(FallbackNominal)} THEN 0 ELSE 1

\* ------------------------------------------------------------------ state
VARIABLES
    inputs,             \* the input files under ROOT_DIR, per language
    disk,               \* translation_cache.json
    out,                \* the output files, per language
    cache,              \* the in-memory cache dict
    pc,                 \* position of the single thread of control
    langIdx,            \* main: index into LANGUAGES
    lineIdx,            \* process_file: index of the next input line
    processed_count,    \* process_file
    cleaned_generated,  \* process_file: data["CleanedAnswer"]
    TranslatedAnswer,   \* process_file: data["TranslatedAnswer"]
    translated_answers, \* process_file
    ansIdx,             \* process_file: index of the next Answer element
    text,               \* translate_text: argument
    retTo,              \* translate_text: which call site it returns to
    translated,         \* translate_text: latest raw provider output
    cleaned,            \* translate_text
    saveRet,            \* save_cache: which call site it returns to
    \* history variables
    deviations,         \* provider calls that deviated from the nominal answer
    netCalls,           \* network calls issued in the run
    pendingNet,         \* network calls issued since the last time.sleep
    call,               \* the translate_text call in progress
    calls,              \* per cache key: the last two completed calls
    retLog,             \* what translate_text returned for the Answer elements of the record
    diag,               \* pairs for which "File not found" was printed
    started,            \* pairs for which process_file was called
    origin,             \* per cache key: the record whose handling stored it
    flushed,            \* the cache as last loaded or completely saved
    crashAt             \* where an unhandled exception ended the run

vars == <<inputs, disk, out, cache, pc, langIdx, lineIdx, processed_count,
          cleaned_generated, TranslatedAnswer, translated_answers, ansIdx,
          text, retTo, translated, cleaned, saveRet,
          deviations, netCalls, pendingNet, call, calls, retLog, diag, started,
          origin, flushed, crashAt>>

mainVars == <<langIdx, diag, started>>
fileVars == <<lineIdx, processed_count, cleaned_generated, TranslatedAnswer,
              translated_answers, ansIdx, retLog>>
frameVars == <<text, retTo, translated, cleaned>>
netVars == <<deviations, netCalls, pendingNet>>
storeVars == <<cache, origin>>

NoCall == [outcome |-> "none", text |-> <<>>, result |-> <<>>, net |-> 0,
           looked |-> FALSE, pRaw |-> <<>>, fRaw |-> <<>>]

Init ==
    /\ inputs \in InputChoices
    /\ disk \in DiskChoices
    /\ out = [i \in 1..Len(LANGUAGES) |-> NoFile]
    /\ cache = EmptyMap
    /\ pc = "main_load"
    /\ langIdx = 1
    /\ lineIdx = 1
    /\ processed_count = 0
    /\ cleaned_generated = <<>>
    /\ TranslatedAnswer = <<>>
    /\ translated_answers = <<>>
    /\ ansIdx = 1
    /\ text = <<>>
    /\ retTo = "none"
    /\ translated = <<>>
    /\ cleaned = <<>>
    /\ saveRet = "none"
    /\ deviations = 0
    /\ netCalls = 0
    /\ pendingNet = 0
    /\ call = NoCall
    /\ calls = EmptyMap
    /\ retLog = <<>>
    /\ diag = {}
    /\ started = {}
    /\ origin = EmptyMap
    /\ flushed = EmptyMap
    /\ crashAt = "none"

\* ------------------------------------------------------------ Cache Store
\* load_cache: the dict of the file, {} when there is none; json.load raises
\* on a file that is not JSON and nothing catches it.
LoadCache ==
    /\ pc = "main_load"
    /\ IF disk.exists /\ ~disk.ok
       THEN /\ pc' = "crashed"
            /\ crashAt' = "load"
            /\ UNCHANGED <<cache, origin, flushed>>
       ELSE /\ cache' = (IF disk.exists THEN disk.data ELSE EmptyMap)
            /\ origin' = [k \in DOMAIN cache' |-> <<0, 0>>]
            /\ flushed' = cache'
            /\ pc' = "main_loop"
            /\ UNCHANGED crashAt
    /\ UNCHANGED <<inputs, disk, out, mainVars, fileVars, frameVars, saveRet,
                   netVars, call, calls>>

\* save_cache, open(TRANSLATION_CACHE_FILE, 'w'): the file is created or cut
\* to length 0.
SaveOpen ==
    /\ pc = "save_open"
    /\ disk' = Truncated
    /\ pc' = "save_dump"
    /\ UNCHANGED <<inputs, out, storeVars, mainVars, fileVars, frameVars, saveRet,
                   netVars, call, calls, flushed, crashAt>>

\* After the final save process_file returns to main's loop.
AfterSave(ret) == IF ret = "final" THEN "main_loop" ELSE "pf_line"

\* save_cache, json.dump and the close of the file; then back to the caller.
SaveDump ==
    /\ pc = "save_dump"
    /\ disk' = Dumped(cache)
    /\ flushed' = cache
    /\ pc' = AfterSave(saveRet)
    /\ langIdx' = (IF saveRet = "final" THEN langIdx + 1 ELSE langIdx)
    /\ saveRet' = "none"
    /\ UNCHANGED <<inputs, out, storeVars, diag, started, fileVars, frameVars,
                   netVars, call, calls, crashAt>>

\* ------------------------------------------------------------------ Driver
\* Variant: the existence test is inverted.
InputExists_Inverted(i) == ~inputs[i].exists

\* os.path.exists(input_path)
InputExists(i) == inputs[i].exists

\* main: the input file is missing: print "File not found" and continue.
MainSkip ==
    /\ pc = "main_loop"
    /\ langIdx <= Len(LANGUAGES)
    /\ ~InputExists(langIdx)
    /\ diag' = diag \cup {langIdx}
    /\ langIdx' = langIdx + 1
    /\ UNCHANGED <<inputs, disk, out, storeVars, pc, started, fileVars, frameVars,
                   saveRet, netVars, call, calls, flushed, crashAt>>

\* main calls process_file, which opens the output file for writing.
MainProcess ==
    /\ pc = "main_loop"
    /\ langIdx <= Len(LANGUAGES)
    /\ InputExists(langIdx)
    /\ started' = started \cup {langIdx}
    /\ out' = [out EXCEPT ![langIdx] = File(<<>>)]
    /\ processed_count' = 0
    /\ lineIdx' = 1
    /\ pc' = "pf_line"
    /\ UNCHANGED <<inputs, disk, storeVars, langIdx, diag, cleaned_generated,
                   TranslatedAnswer, translated_answers, ansIdx, retLog, frameVars,
                   saveRet, netVars, call, calls, flushed, crashAt>>

\* main: every pair was handled; the summary is printed.
MainFinish ==
    /\ pc = "main_loop"
    /\ langIdx > Len(LANGUAGES)
    /\ pc' = "main_done"
    /\ UNCHANGED <<inputs, disk, out, storeVars, mainVars, fileVars, frameVars,
                   saveRet, netVars, call, calls, flushed, crashAt>>

\* ---------------------------------------------------------- File Processor
CurLines == inputs[langIdx].lines
CurRecord == CurLines[lineIdx]
lang_code == get_language_code(LANGUAGES[langIdx])

\* Variant: the period is one record too long.
SaveDue_Late(n) == n % (SaveEvery + 1) = 0

\* processed_count % 10 == 0
SaveDue(n) == n % SaveEvery = 0

\* Variant: empty translations are left out of the list.
AppendAnswer_SkipEmpty(list, r) == IF Len(r) = 0 THEN list ELSE Append(list, r)

\* translated_answers.append(translated)
AppendAnswer(list, r) == Append(list, r)

\* Variant: process_file returns without the save after the loop.
PfEndOfFile_NoSave ==
    /\ pc = "pf_line"
    /\ lineIdx > Len(CurLines)
    /\ pc' = "main_loop"
    /\ langIdx' = langIdx + 1
    /\ UNCHANGED <<inputs, disk, out, storeVars, diag, started, fileVars, frameVars,
                   saveRet, netVars, call, calls, flushed, crashAt>>

\* The for loop is exhausted: the files are closed and the cache is saved.
PfEndOfFile ==
    /\ pc = "pf_line"
    /\ lineIdx > Len(CurLines)
    /\ pc' = "save_open"
    /\ saveRet' = "final"
    /\ UNCHANGED <<inputs, disk, out, storeVars, mainVars, fileVars, frameVars,
                   netVars, call, calls, flushed, crashAt>>

\* json.loads raises on a line that is not JSON; nothing catches it, so
\* process_file and main end there, the save after the loop skipped.
PfBadLine ==
    /\ pc = "pf_line"
    /\ lineIdx <= Len(CurLines)
    /\ CurRecord.bad
    /\ pc' = "crashed"
    /\ crashAt' = "line"
    /\ UNCHANGED <<inputs, disk, out, storeVars, mainVars, fileVars, frameVars,
                   saveRet, netVars, call, calls, flushed>>

\* One line is parsed and its Generated field cleaned; a non-empty cleaned
\* answer is handed to translate_text.
PfReadLine ==
    /\ pc = "pf_line"
    /\ lineIdx <= Len(CurLines)
    /\ ~CurRecord.bad
    /\ cleaned_generated' = clean_generated_answer(GetGenerated(CurRecord))
    /\ retLog' = <<>>
    /\ translated_answers' = <<>>
    /\ ansIdx' = 1
    /\ IF Len(cleaned_generated') > 0
       THEN /\ text' = cleaned_generated'
            /\ retTo' = "gen"
            /\ pc' = "tr_enter"
            /\ UNCHANGED TranslatedAnswer
       ELSE /\ TranslatedAnswer' = <<>>
            /\ pc' = "pf_answers"
            /\ UNCHANGED <<text, retTo>>
    /\ UNCHANGED <<inputs, disk, out, storeVars, mainVars, lineIdx, processed_count,
                   translated, cleaned, saveRet, netVars, call, calls, flushed, crashAt>>

\* The next element of Answer is handed to translate_text.
PfNextAnswer ==
    /\ pc = "pf_answers"
    /\ ansIdx <= Len(GetAnswer(CurRecord))
    /\ text' = GetAnswer(CurRecord)[ansIdx]
    /\ retTo' = "ans"
    /\ pc' = "tr_enter"
    /\ UNCHANGED <<inputs, disk, out, storeVars, mainVars, fileVars, translated,
                   cleaned, saveRet, netVars, call, calls, flushed, crashAt>>

\* The enriched record is written; every 10th record the cache is saved.
PfWrite ==
    /\ pc = "pf_answers"
    /\ ansIdx > Len(GetAnswer(CurRecord))
    /\ out' = [out EXCEPT ![langIdx].lines =
                 Append(@, [CleanedAnswer |-> cleaned_generated,
                            TranslatedAnswer |-> TranslatedAnswer,
                            TranslatedAnswerList |-> translated_answers])]
    /\ processed_count' = processed_count + 1
    /\ lineIdx' = lineIdx + 1
    /\ IF SaveDue(processed_count')
       THEN pc' = "save_open" /\ saveRet' = "ckpt"
       ELSE pc' = "pf_line" /\ UNCHANGED saveRet
    /\ UNCHANGED <<inputs, disk, storeVars, mainVars, cleaned_generated,
                   TranslatedAnswer, translated_answers, ansIdx, retLog, frameVars,
                   netVars, call, calls, flushed, crashAt>>

\* -------------------------------------------------------------- Translator
Key == CacheKey(lang_code, text)

\* Variant: the empty string is returned in place of the text.
OnPrimaryFailure_Empty(t) == <<>>

\* except Exception: ... return text
OnPrimaryFailure(t) == t

\* Variant: the raw output is cleaned once more.
OnFallbackFailure_Cleaned(raw) == clean_translated_text(raw)

\* except: cleaned = translated
OnFallbackFailure(raw) == raw

\* translate_text returns r to its call site in process_file; its frame is
\* dropped.  `done` describes the call that ends.
Return(r, done) ==
    /\ calls' = Store(calls, Key,
                      [prev |-> IF Key \in DOMAIN calls THEN calls[Key].cur ELSE NoCall,
                       cur  |-> [done EXCEPT !.result = r, !.text = text]])
    /\ call' = NoCall
    /\ IF retTo = "gen"
       THEN /\ TranslatedAnswer' = r
            /\ UNCHANGED <<translated_answers, ansIdx, retLog>>
       ELSE /\ translated_answers' = AppendAnswer(translated_answers, r)
            /\ ansIdx' = ansIdx + 1
            /\ retLog' = Append(retLog, [text |-> text, result |-> r])
            /\ UNCHANGED TranslatedAnswer
    /\ pc' = "pf_answers"
    /\ text' = <<>>
    /\ retTo' = "none"
    /\ translated' = <<>>
    /\ cleaned' = <<>>
    /\ UNCHANGED <<lineIdx, processed_count, cleaned_generated>>

\* Variant: the test for empty text is missing.
TrEmpty_Unguarded ==
    /\ pc = "tr_enter"
    /\ Len(text) = 0
    /\ ~CacheHit(cache, Key)
    /\ call' = [NoCall EXCEPT !.outcome = "pending", !.looked = TRUE]
    /\ pc' = "tr_primary"
    /\ UNCHANGED <<inputs, disk, out, storeVars, mainVars, fileVars, frameVars,
                   saveRet, netVars, calls, flushed, crashAt>>

\* if not text: return ""
TrEmpty ==
    /\ pc = "tr_enter"
    /\ Len(text) = 0
    /\ Return(<<>>, [NoCall EXCEPT !.outcome = "empty"])
    /\ UNCHANGED <<inputs, disk, out, storeVars, mainVars, saveRet, netVars,
                   flushed, crashAt>>

\* if cache_key in cache: return cache[cache_key]
TrHit ==
    /\ pc = "tr_enter"
    /\ Len(text) > 0
    /\ CacheHit(cache, Key)
    /\ Return(cache[Key], [NoCall EXCEPT !.outcome = "hit", !.looked = TRUE])
    /\ UNCHANGED <<inputs, disk, out, storeVars, mainVars, saveRet, netVars,
                   flushed, crashAt>>

\* The key is not cached: the try block is entered.
TrMiss ==
    /\ pc = "tr_enter"
    /\ Len(text) > 0
    /\ ~CacheHit(cache, Key)
    /\ call' = [NoCall EXCEPT !.outcome = "pending", !.looked = TRUE]
    /\ pc' = "tr_primary"
    /\ UNCHANGED <<inputs, disk, out, storeVars, mainVars, fileVars, frameVars,
                   saveRet, netVars, calls, flushed, crashAt>>

\* One network call is issued; o is what the provider does.
Network(o) ==
    /\ deviations + Cost(o) <= MaxDeviations
    /\ deviations' = deviations + Cost(o)
    /\ netCalls' = netCalls + 1
    /\ pendingNet' = pendingNet + 1

\* Variant: the result is not stored.
StoreCleaned_Forgotten(v) == UNCHANGED storeVars

\* cache[cache_key] = cleaned
StoreCleaned(v) ==
    /\ cache' = Store(cache, Key, v)
    /\ origin' = Store(origin, Key, <<langIdx, lineIdx>>)

\* GoogleTranslator(...).translate(text) raises: the outer except prints the
\* error and returns the text.
TrPrimaryFails ==
    /\ pc = "tr_primary"
    /\ Network(Raised)
    /\ Return(OnPrimaryFailure(text),
              [call EXCEPT !.outcome = "fail", !.net = @ + 1])
    /\ UNCHANGED <<inputs, disk, out, storeVars, mainVars, saveRet, flushed, crashAt>>

\* GoogleTranslator(...).translate(text) returns: the output is cleaned, and
\* stored unless it is empty.
TrPrimaryReturns ==
    /\ pc = "tr_primary"
    /\ \E o \in PrimaryOutcomes \ {Raised} :
        /\ Network(o)
        /\ translated' = o.val
        /\ cleaned' = clean_translated_text(o.val)
        /\ IF Len(cleaned') = 0
           THEN /\ pc' = "tr_fallback"
                /\ call' = [call EXCEPT !.net = @ + 1, !.pRaw = <<o.val>>]
                /\ UNCHANGED storeVars
           ELSE /\ pc' = "tr_sleep"
                /\ call' = [call EXCEPT !.outcome = "ok", !.net = @ + 1, !.pRaw = <<o.val>>]
                /\ StoreCleaned(cleaned')
    /\ UNCHANGED <<inputs, disk, out, mainVars, fileVars, text, retTo, saveRet,
                   calls, flushed, crashAt>>

\* MyMemoryTranslator(...).translate(text) raises: the bare except keeps what
\* `translated` holds.
TrFallbackFails ==
    /\ pc = "tr_fallback"
    /\ Network(Raised)
    /\ cleaned' = OnFallbackFailure(translated)
    /\ StoreCleaned(cleaned')
    /\ call' = [call EXCEPT !.outcome = "fb_fail", !.net = @ + 1]
    /\ pc' = "tr_sleep"
    /\ UNCHANGED <<inputs, disk, out, mainVars, fileVars, text, retTo, translated,
                   saveRet, calls, flushed, crashAt>>

\* MyMemoryTranslator(...).translate(text) returns: its output is cleaned and
\* stored, empty or not.
TrFallbackReturns ==
    /\ pc = "tr_fallback"
    /\ \E o \in FallbackOutcomes \ {Raised} :
        /\ Network(o)
        /\ translated' = o.val
        /\ cleaned' = clean_translated_text(o.val)
        /\ StoreCleaned(cleaned')
        /\ call' = [call EXCEPT !.outcome = "fb_ok", !.net = @ + 1, !.fRaw = <<o.val>>]
    /\ pc' = "tr_sleep"
    /\ UNCHANGED <<inputs, disk, out, mainVars, fileVars, text, retTo, saveRet,
                   calls, flushed, crashAt>>

\* time.sleep(0.1); return cleaned
TrSleep ==
    /\ pc = "tr_sleep"
    /\ pendingNet' = 0
    /\ Return(cleaned, call)
    /\ UNCHANGED <<inputs, disk, out, storeVars, mainVars, saveRet, deviations,
                   netCalls, flushed, crashAt>>

\* ----------------------------------------------------------- specification
Next ==
    \/ LoadCache
    \/ SaveOpen
    \/ SaveDump
    \/ MainSkip
    \/ MainProcess
    \/ MainFinish
    \/ PfEndOfFile
    \/ PfBadLine
    \/ PfReadLine
    \/ PfNextAnswer
    \/ PfWrite
    \/ TrEmpty
    \/ TrHit
    \/ TrMiss
    \/ TrPrimaryFails
    \/ TrPrimaryReturns
    \/ TrFallbackFails
    \/ TrFallbackReturns
    \/ TrSleep

Spec == Init /\ [][Next]_vars

\* ------------------------------------------------------------ vocabulary
Stored == {"ok", "fb_ok", "fb_fail"}

\* What process_file received from the translate_text call that just ended.
Delivered(r) ==
    IF retTo = "gen" THEN TranslatedAnswer' = r
    ELSE translated_answers' = Append(translated_answers, r)

OnDisk(k, v) ==
    /\ disk.exists /\ disk.ok
    /\ k \in DOMAIN disk.data
    /\ disk.data[k] = v

\* What load_cache of a restarted run would return.
Reloaded == IF disk.exists /\ disk.ok THEN disk.data ELSE EmptyMap

\* Cache entries in memory that the cache file does not hold, and the records
\* whose handling stored them.
Unsaved == {k \in DOMAIN cache : ~OnDisk(k, cache[k])}
UnsavedRecords == {origin[k] : k \in Unsaved}

\* process_file has just returned to main / has just ended by an exception.
ProcessReturned == pc = "main_loop" /\ (langIdx - 1) \in started
ProcessRaised == pc = "crashed" /\ crashAt = "line"

C2_CacheAppendOnly ==
    [][\A k \in DOMAIN cache : k \in DOMAIN cache' /\ cache'[k] = cache[k]]_vars

C2_Witness ==
    /\ pc = "tr_sleep"
    /\ \E k \in DOMAIN cache :
        /\ origin[k] \notin {<<0, 0>>, <<langIdx, lineIdx>>}
        /\ k \in DOMAIN calls
        /\ calls[k].prev.outcome \in Stored

\* ---------------------------------------------------------------------- C3
\* C3: a translate call with empty text returns "" without looking into the
\* cache and without a network call; a call whose key is cached returns the
\* cached value without a network call and leaves the cache as it is; a
\* network call is issued only for a non-empty text whose key is not cached.
C3_NetworkOnlyOnMiss ==
    [][ /\ (pc = "tr_enter" /\ Len(text) = 0) =>
            /\ pc' = "pf_answers"
            /\ Delivered(<<>>)
            /\ ~calls'[Key].cur.looked
            /\ cache' = cache
            /\ netCalls' = netCalls
        /\ (pc = "tr_enter" /\ Len(text) > 0 /\ Key \in DOMAIN cache) =>
            /\ pc' = "pf_answers"
            /\ Delivered(cache[Key])
            /\ cache' = cache
            /\ netCalls' = netCalls
        /\ netCalls' # netCalls => (Len(text) > 0 /\ Key \notin DOMAIN cache)
      ]_vars

C3_Witness ==
    /\ \E k \in DOMAIN calls : calls[k].cur.outcome = "hit" /\ calls[k].cur.net = 0
    /\ \E k \in DOMAIN calls : calls[k].cur.outcome = "empty" /\ ~calls[k].cur.looked

\* ---------------------------------------------------------------------- C4
\* C4: when the call to the primary provider fails, translate returns the
\* text it was given, unchanged, to process_file, whose loop goes on; no
\* exception ends the run there.
C4_PrimaryFailureReturnsText ==
    [][ (pc = "tr_primary" /\ netCalls' # netCalls
            /\ pc' \notin {"tr_fallback", "tr_sleep"}) =>
            /\ pc' = "pf_answers"
            /\ crashAt' = "none"
            /\ Delivered(text)
            /\ calls'[Key].cur.outcome = "fail"
            /\ calls'[Key].cur.result = text
            /\ cache' = cache
      ]_vars

C4_Witness ==
    /\ pc = "main_done"
    /\ \E k \in DOMAIN calls :
        /\ calls[k].cur.outcome = "fail"
        /\ calls[k].cur.result = calls[k].cur.text

\* ---------------------------------------------------------------------- C5
\* C5 as stated: when the primary's cleaned output is empty and the fallback
\* call fails, translate returns and caches the raw output of the fallback
\* provider.
C5_FallbackRawReturned ==
    \A k \in DOMAIN calls :
        calls[k].cur.outcome = "fb_fail" =>
            /\ Len(calls[k].cur.fRaw) = 1
            /\ calls[k].cur.result = calls[k].cur.fRaw[1]
            /\ cache[k] = calls[k].cur.fRaw[1]

\* C5 amended: when the primary's cleaned output is empty and the fallback
\* call fails, translate returns and caches the raw, uncleaned output of the
\* PRIMARY provider (the failed fallback call has produced none).
C5_PrimaryRawReturned ==
    \A k \in DOMAIN calls :
        calls[k].cur.outcome = "fb_fail" =>
            /\ calls[k].cur.fRaw = <<>>
            /\ Len(calls[k].cur.pRaw) = 1
            /\ clean_translated_text(calls[k].cur.pRaw[1]) = <<>>
            /\ calls[k].cur.result = calls[k].cur.pRaw[1]
            /\ k \in DOMAIN cache
            /\ cache[k] = calls[k].cur.pRaw[1]

C5_Witness ==
    \E k \in DOMAIN calls :
        /\ calls[k].cur.outcome = "fb_fail"
        /\ Len(calls[k].cur.result) > 0
        /\ pc = "pf_answers"

\* ---------------------------------------------------------------------- C6
\* C6: every network call is followed by the delay before translate returns
\* and before the next network call: never two network calls without a sleep
\* between them, and none outstanding once translate has returned.
C6_DelayAfterEveryNetworkCall ==
    /\ pendingNet <= 1
    /\ pc \notin {"tr_fallback", "tr_sleep"} => pendingNet = 0

\* ---------------------------------------------------------------------- C7
\* C7 as stated: whenever process_file has ended, by return or by exception,
\* the cache file holds exactly the in-memory cache; and so it does after
\* every 10th processed record.
C7_SavedOnEveryExit ==
    /\ (ProcessReturned \/ ProcessRaised) => (disk.ok /\ Reloaded = cache)
    /\ (pc = "pf_line" /\ processed_count > 0 /\ processed_count % 10 = 0) =>
            disk = Dumped(cache)

\* C7 amended: the cache is saved after every 10th processed record, and once
\* more when the loop over the lines has ended normally, whatever the number
\* of processed records; hence whenever process_file has returned, the cache
\* file holds exactly the in-memory cache.  When process_file ends by an
\* exception raised for a line, the final save is skipped and the cache file
\* is as the last load or save left it.
C7_SavedOnReturn ==
    /\ ProcessReturned => disk = Dumped(cache)
    /\ (pc = "pf_line" /\ processed_count > 0 /\ processed_count % 10 = 0) =>
            disk = Dumped(cache)
    /\ ProcessRaised => disk \in {NoDisk, Dumped(flushed)}

C7_Witness ==
    /\ ProcessReturned
    /\ processed_count > 10
    /\ processed_count % 10 # 0
    /\ Cardinality(DOMAIN cache) > 10
    /\ disk = Dumped(cache)

\* ---------------------------------------------------------------------- C8
\* C8 as stated: at every point of a run the entries in memory but not in
\* the cache file come from at most 9 records, and every entry of the last
\* flush is in the cache file, so that a restarted run finds it.
C8_AtMostNineRecordsUnsaved ==
    /\ Cardinality(UnsavedRecords) <= 9
    /\ \A k \in DOMAIN flushed : OnDisk(k, flushed[k]) /\ CacheHit(Reloaded, k)

\* C8 amended: at every point of a run at which save_cache is not rewriting
\* the cache file, the entries in memory but not in the cache file come from
\* at most 10 records (those handled since the last flush, the 10th being the
\* one whose write triggers the next flush), and every entry of the last
\* flush is in the cache file, so that a restarted run finds it.  While
\* save_cache rewrites the file, the file is truncated.
C8_AtMostTenRecordsUnsaved ==
    /\ pc # "save_dump" =>
        /\ Cardinality(UnsavedRecords) <= 10
        /\ \A k \in DOMAIN flushed : OnDisk(k, flushed[k]) /\ CacheHit(Reloaded, k)
    /\ pc = "save_dump" => disk = Truncated

C8_Witness ==
    /\ pc \notin {"save_open", "save_dump"}
    /\ Cardinality(UnsavedRecords) = 10
    /\ flushed = EmptyMap

\* ---------------------------------------------------------------------- C9
\* C9: the TranslatedAnswerList of every output record is as long as the
\* Answer of its input record and holds, in order, what translate returned
\* for each Answer element; a record without Answer gets the empty list and
\* raises nothing.
C9_AnswerListMatches ==
    /\ \A i \in 1..Len(LANGUAGES) :
        /\ Len(out[i].lines) <= Len(inputs[i].lines)
        /\ \A j \in 1..Len(out[i].lines) :
            LET r == inputs[i].lines[j]
                o == out[i].lines[j]
            IN  /\ Len(o.TranslatedAnswerList) = Len(GetAnswer(r))
                /\ ~r.hasAns => o.TranslatedAnswerList = <<>>
    /\ (pc \in {"pf_line", "save_open", "save_dump"} /\ Len(out[langIdx].lines) > 0) =>
        LET n == Len(out[langIdx].lines)
            a == GetAnswer(inputs[langIdx].lines[n])
            o == out[langIdx].lines[n]
        IN  /\ Len(retLog) = Len(a)
            /\ \A j \in 1..Len(a) :
                /\ retLog[j].text = a[j]
                /\ o.TranslatedAnswerList[j] = retLog[j].result
    /\ ProcessRaised => inputs[langIdx].lines[lineIdx].bad

C9_Witness ==
    /\ Len(out[1].lines) = 3
    /\ Len(out[1].lines[1].TranslatedAnswerList) = 3
    /\ out[1].lines[1].TranslatedAnswerList[1] # out[1].lines[1].TranslatedAnswerList[3]
    /\ out[1].lines[1].TranslatedAnswerList[2] = <<>>
    /\ ~inputs[1].lines[2].hasAns
    /\ out[1].lines[2].TranslatedAnswerList = <<>>

\* --------------------------------------------------------------------- C10
\* C10: for every pair whose input file is missing the driver prints the
\* diagnostic, creates no output file, raises nothing and goes on, so that
\* every pair whose input file exists is processed.
C10_MissingInputSkipped ==
    /\ \A i \in 1..Len(LANGUAGES) :
        i < langIdx =>
            /\ ~inputs[i].exists => (i \in diag /\ ~out[i].exists /\ i \notin started)
            /\ inputs[i].exists => (i \in started /\ out[i].exists /\ i \notin diag)
    /\ crashAt \in {"none", "load", "line"}
    /\ pc = "main_done" =>
        /\ crashAt = "none"
        /\ \A i \in 1..Len(LANGUAGES) : inputs[i].exists <=> i \in started

C10_Witness ==
    /\ pc = "main_done"
    /\ ~inputs[1].exists
    /\ 1 \in diag
    /\ ~out[1].exists
    /\ 2 \in started
    /\ Len(out[2].lines) = 1

====
